---- MODULE Spec2Model ----
(***************************************************************************)
(* Sample Pack Maker: the selector (filter_wav_files, _add_files,          *)
(* clear_list), the batch processor (process_wav_files with                *)
(* ensure_output_folder, shutil.copy2 and strip_metadata) and the          *)
(* front-end trigger (process_files), over an explicit filesystem.         *)
(*                                                                         *)
(* Strings are sequences of one-character strings, so that strip(),        *)
(* suffix, lower() and the f-string "{index:03d}" are computed, not        *)
(* assumed.  A path is a sequence of names from the filesystem root.       *)
(*                                                                         *)
(* process_wav_files is one synchronous call; it is cut into its steps     *)
(* (Validate, EnterLoop, Copy, Tag) so that their order can be stated.    *)
(* While a call runs no handler of the front-end runs: Tk is blocked.      *)
(*                                                                         *)
(* Left out: message boxes and widget states (outputs only), a copy that   *)
(* stops half-way (disk full), pack names that contain a path separator,   *)
(* symlinks that change while the program runs.  A write to a file whose   *)
(* permission bits forbid it fails or succeeds, as the process is an       *)
(* ordinary user or root.                                                  *)
(***************************************************************************)
EXTENDS Integers, Sequences, FiniteSets, TLC

\* ------------------------------------------------------------------ bounds
\* longest wav_files list a direct caller passes to process_wav_files
MaxFiles == 2
\* longest batch of raw strings offered to the selector in one call
MaxBatch == 2
\* calls of process_wav_files by a direct caller in one behaviour
MaxRuns == 2
\* exports triggered from the front-end in one behaviour
MaxExports == 2
\* largest 1-based index whose file name is computed on its own
MaxIndex == 1100

\* ------------------------------------------------------- strings and names
\* Python's None, for exceptions and callers
None == "None"

\* an Optional value: the empty sequence is None, <<x>> holds x
Nothing == <<>>
Some(x) == <<x>>

Range(s) == {s[i] : i \in 1..Len(s)}

NoDup(s) == \A i, j \in 1..Len(s) : i # j => s[i] # s[j]

Front(s) == SubSeq(s, 1, Len(s) - 1)

Last(s) == s[Len(s)]

\* str.isspace() on the characters the model uses
Whitespace == {" "}

\* str.lower() on one character
LowerChar(c) ==
    CASE c = "W" -> "w"
      [] c = "A" -> "a"
      [] c = "V" -> "v"
      [] c = "P" -> "p"
      [] OTHER -> c

RECURSIVE Lower(_)
\* str.lower()
Lower(s) == IF s = <<>> THEN <<>> ELSE <<LowerChar(Head(s))>> \o Lower(Tail(s))

RECURSIVE LStrip(_)
LStrip(s) == IF s # <<>> /\ Head(s) \in Whitespace THEN LStrip(Tail(s)) ELSE s

RECURSIVE RStrip(_)
RStrip(s) == IF s # <<>> /\ Last(s) \in Whitespace THEN RStrip(Front(s)) ELSE s

\* str.strip()
Strip(s) == RStrip(LStrip(s))

\* str.rfind("."), 1-based; 0 when there is no dot
RFindDot(s) ==
    LET dots == {i \in 1..Len(s) : s[i] = "."}
    IN  IF dots = {} THEN 0 ELSE CHOOSE i \in dots : \A j \in dots : j <= i

\* PurePath.suffix: the last dot and what follows it, unless the dot leads
\* or ends the name
Suffix(name) ==
    LET i == RFindDot(name)
    IN  IF 1 < i /\ i < Len(name) THEN SubSeq(name, i, Len(name)) ELSE <<>>

DigitChar == [d \in 0..9 |-> CASE d = 0 -> "0" [] d = 1 -> "1" [] d = 2 -> "2"
                               [] d = 3 -> "3" [] d = 4 -> "4" [] d = 5 -> "5"
                               [] d = 6 -> "6" [] d = 7 -> "7" [] d = 8 -> "8"
                               [] OTHER -> "9"]

RECURSIVE Decimal(_)
Decimal(n) == IF n < 10 THEN <<DigitChar[n]>>
              ELSE Decimal(n \div 10) \o <<DigitChar[n % 10]>>

RECURSIVE ZeroPad(_, _)
ZeroPad(s, width) == IF Len(s) >= width THEN s ELSE ZeroPad(<<"0">> \o s, width)

\* a fixed field of three digits: the index loses its thousands
Format03d_Truncating(index) == ZeroPad(Decimal(index % 1000), 3)

\* format(index, "03d"): decimal digits, zero-filled to a minimum width of 3
Format03d(index) == ZeroPad(Decimal(index), 3)

\* ---------------------------------------------------------- the file names
N_d == <<"d">>
N_x == <<"x">>
N_k == <<"k", ".", "w", "a", "v">>
N_h == <<"h", ".", "W", "A", "V">>
N_b == <<"b", ".", "w", "a", "v">>
N_n == <<"n", ".", "t", "x", "t">>
N_s == <<"s", ".", "w", "a", "v">>
N_m == <<"m", ".", "w", "a", "v">>
N_l == <<"l", ".", "w", "a", "v">>
N_dot == <<".">>
N_dotdot == <<".", ".">>
N_tilde == <<"~">>
N_tildeGhost == <<"~", "g">>
N_Pout == <<"P", "_", "o", "u", "t", "p", "u", "t">>
N_P001 == <<"P", "_", "0", "0", "1", ".", "w", "a", "v">>

\* the process's working directory and the user's home directory
Cwd == <<N_d>>
Home == <<N_d>>

\* ------------------------------------------------------------- filesystem
Dir == [kind |-> "dir", data |-> "", tags |-> FALSE, riff |-> FALSE,
        ro |-> FALSE, mtime |-> "", target |-> <<>>]

Link(t) == [kind |-> "link", data |-> "", tags |-> FALSE, riff |-> FALSE,
            ro |-> FALSE, mtime |-> "", target |-> t]

\* a regular file: its audio payload, whether it holds a tag chunk, whether
\* it parses as RIFF/WAVE, its read-only permission bit and its mtime
File(data, tags, riff, ro, mtime) ==
    [kind |-> "file", data |-> data, tags |-> tags, riff |-> riff,
     ro |-> ro, mtime |-> mtime, target |-> <<>>]

Exists(f, p) == p \in DOMAIN f
IsFile(f, p) == p \in DOMAIN f /\ f[p].kind = "file"
IsDir(f, p) == p \in DOMAIN f /\ f[p].kind = "dir"

Put(f, p, node) == [q \in (DOMAIN f) \cup {p} |-> IF q = p THEN node ELSE f[q]]

Unlink(f, p) == [q \in (DOMAIN f) \ {p} |-> f[q]]

\* the disk when the program starts: a tagged WAV, a read-only WAV with an
\* upper-case extension, a .wav that is not RIFF, a text file, a directory
\* named like a WAV, a symlink to the first WAV, and an output folder left
\* by an earlier export
InitialFs ==
    LET paths == {<<N_d>>, <<N_d, N_k>>, <<N_d, N_h>>, <<N_d, N_b>>,
                  <<N_d, N_n>>, <<N_d, N_s>>, <<N_d, N_l>>,
                  <<N_d, N_Pout>>, <<N_d, N_Pout, N_P001>>}
    IN  [p \in paths |->
           CASE p = <<N_d, N_k>> -> File("k", TRUE, TRUE, FALSE, "t_k")
             [] p = <<N_d, N_h>> -> File("h", FALSE, TRUE, TRUE, "t_h")
             [] p = <<N_d, N_b>> -> File("b", FALSE, FALSE, FALSE, "t_b")
             [] p = <<N_d, N_n>> -> File("n", FALSE, FALSE, FALSE, "t_n")
             [] p = <<N_d, N_l>> -> Link(<<N_d, N_k>>)
             [] p = <<N_d, N_Pout, N_P001>> -> File("o", TRUE, TRUE, FALSE, "t_o")
             [] OTHER -> Dir]

\* ----------------------------------------------------------------- selector
\* a raw path string, parsed: absolute or not, and its components
Raw(abs, parts) == [abs |-> abs, parts |-> parts]

\* Path.expanduser(): "~" is the user's home, "~name" of an unknown user
\* raises RuntimeError
ExpandUser(raw) ==
    IF ~raw.abs /\ raw.parts # <<>> /\ Head(Head(raw.parts)) = "~"
    THEN IF Head(raw.parts) = N_tilde
         THEN [raised |-> FALSE, path |-> Raw(TRUE, Home \o Tail(raw.parts))]
         ELSE [raised |-> TRUE, path |-> raw]
    ELSE [raised |-> FALSE, path |-> raw]

RECURSIVE Walk(_, _, _)
Walk(f, acc, parts) ==
    IF parts = <<>> THEN acc
    ELSE LET c == Head(parts)
             next == acc \o <<c>>
         IN  CASE c = N_dot -> Walk(f, acc, Tail(parts))
               [] c = N_dotdot ->
                    Walk(f, IF acc = <<>> THEN acc ELSE Front(acc), Tail(parts))
               [] Exists(f, next) /\ f[next].kind = "link" ->
                    Walk(f, f[next].target, Tail(parts))
               [] OTHER -> Walk(f, next, Tail(parts))

\* Path.resolve(): absolute, "." and ".." collapsed, symlinks followed
Resolve(f, raw) == Walk(f, <<>>, IF raw.abs THEN raw.parts ELSE Cwd \o raw.parts)

\* the test of line 18, inverted: the path is kept
KeepsPath(f, path) ==
    /\ path # <<>>
    /\ Lower(Suffix(Last(path))) = <<".", "w", "a", "v">>
    /\ IsFile(f, path)

RECURSIVE FilterLoop(_, _, _, _)
FilterLoop(f, files, seen, wav_paths) ==
    IF files = <<>> THEN [raised |-> FALSE, out |-> wav_paths]
    ELSE LET e == ExpandUser(Head(files))
             path == Resolve(f, e.path)
         IN  IF e.raised THEN [raised |-> TRUE, out |-> <<>>]
             ELSE IF ~KeepsPath(f, path) \/ path \in seen
                  THEN FilterLoop(f, Tail(files), seen, wav_paths)
                  ELSE FilterLoop(f, Tail(files), seen \cup {path},
                                  Append(wav_paths, path))

filter_wav_files(f, files) == FilterLoop(f, files, {}, <<>>)

\* ---------------------------------------------------------------- processor
\* Path.parent
Parent(path) == Front(path)

\* os.path.islink / following one symlink, as open() does
Deref(f, p) == IF Exists(f, p) /\ f[p].kind = "link" THEN f[p].target ELSE p

Ok(f) == [ok |-> TRUE, fs |-> f, err |-> None]
Err(f, e) == [ok |-> FALSE, fs |-> f, err |-> e]

RECURSIVE MkdirParents(_, _)
\* Path.mkdir(parents=True, exist_ok=True)
MkdirParents(f, p) ==
    IF p = <<>> THEN Ok(f)
    ELSE IF Exists(f, p)
         THEN IF IsDir(f, Deref(f, p)) THEN Ok(f) ELSE Err(f, "FileExistsError")
         ELSE LET up == MkdirParents(f, Parent(p))
              IN  IF up.ok THEN Ok(Put(up.fs, p, Dir)) ELSE up

\* f"{pack_name}_output"
OutputName(pack_name) == pack_name \o <<"_", "o", "u", "t", "p", "u", "t">>

\* ensure_output_folder, whose result is the folder's path when it succeeds
ensure_output_folder(f, base_folder, pack_name) ==
    MkdirParents(f, base_folder \o <<OutputName(pack_name)>>)

\* f"{pack_name}_{index:03d}{source_path.suffix.lower()}"
new_filename(pack_name, index, source_path) ==
    pack_name \o <<"_">> \o Format03d(index) \o Lower(Suffix(Last(source_path)))

\* shutil.copy2(src, dst): copyfile (same-file check, open src, open dst for
\* writing) then copystat (permission bits and times).  priv: the process
\* may write a file whose permission bits forbid it (it runs as root).
Copy2(f, src, dst, priv) ==
    LET s == Deref(f, src)
        d0 == IF IsDir(f, dst) THEN dst \o <<Last(src)>> ELSE dst
        d == Deref(f, d0)
    IN  CASE Exists(f, s) /\ Exists(f, d) /\ s = d -> Err(f, "SameFileError")
          [] ~Exists(f, s) -> Err(f, "FileNotFoundError")
          [] IsDir(f, s) -> Err(f, "IsADirectoryError")
          [] ~IsDir(f, Parent(d)) -> Err(f, "FileNotFoundError")
          [] IsDir(f, d) -> Err(f, "IsADirectoryError")
          [] IsFile(f, d) /\ f[d].ro /\ ~priv -> Err(f, "PermissionError")
          [] OTHER -> Ok(Put(f, d, File(f[s].data, f[s].tags, f[s].riff,
                                        f[s].ro, f[s].mtime)))

\* a strip_metadata that deletes the copy it could not clean
strip_metadata_RemovesOnError(f, file_path, priv) ==
    LET p == Deref(f, file_path)
    IN  CASE ~Exists(f, p) -> Err(f, "FileNotFoundError")
          [] IsDir(f, p) -> Err(f, "IsADirectoryError")
          [] ~f[p].riff -> Err(Unlink(f, p), "TagIOError")
          [] f[p].tags /\ f[p].ro /\ ~priv -> Err(Unlink(f, p), "PermissionError")
          [] f[p].tags -> Ok(Put(f, p, File(f[p].data, FALSE, TRUE, f[p].ro, "t_now")))
          [] OTHER -> Ok(f)

\* strip_metadata: WAVE(file_path) opens and parses the file; audio.delete()
\* rewrites it without its tag chunk, only when it has tags
strip_metadata(f, file_path, priv) ==
    LET p == Deref(f, file_path)
    IN  CASE ~Exists(f, p) -> Err(f, "FileNotFoundError")
          [] IsDir(f, p) -> Err(f, "IsADirectoryError")
          [] ~f[p].riff -> Err(f, "TagIOError")
          [] f[p].tags /\ f[p].ro /\ ~priv -> Err(f, "PermissionError")
          [] f[p].tags -> Ok(Put(f, p, File(f[p].data, FALSE, TRUE, f[p].ro, "t_now")))
          [] OTHER -> Ok(f)

\* ---------------------------------------------------------------- the state
VARIABLES
    fs,             \* the disk: path -> node
    wav_files,      \* SamplePackMakerApp.wav_files
    pack_name_var,  \* the text of the pack-name entry
    status_var,     \* the status line
    pc,             \* where process_wav_files stands
    caller,         \* "app" (process_files) or "api" (a direct caller)
    args,           \* the arguments of the current or last call
    output_folder,  \* the local of that name
    index,          \* the loop's index
    err,            \* the exception the call raised, or None
    result,         \* the (folder, count) the call returned, or None
    fs0,            \* history: the disk when the current call started
    copied,         \* history: <<source, destination>> of each copy of this call
    tagged,         \* history: the paths this call gave to strip_metadata
    prev,           \* history: how the direct caller's previous call ended
    runs,           \* calls made by the direct caller
    exports,        \* runs triggered from the front-end
    first_seen,     \* history: the kept paths in the order first offered
    selected,       \* the last direct call of filter_wav_files and its outcome
    named           \* the last file name computed on its own

vars == <<fs, wav_files, pack_name_var, status_var, pc, caller, args,
          output_folder, index, err, result, fs0, copied, tagged, prev, runs,
          exports, first_seen, selected, named>>

appVars == <<wav_files, pack_name_var, status_var, exports, first_seen>>
runVars == <<pc, caller, args, output_folder, index, err, result, fs0, copied,
             tagged>>
apiVars == <<prev, runs, selected, named>>

NoArgs == [wav_files |-> <<>>, pack_name |-> <<>>, output_root |-> Nothing]

Init ==
    /\ fs = InitialFs
    /\ wav_files = <<>>
    /\ pack_name_var = <<>>
    /\ status_var = <<"Ready", 0>>
    /\ pc = "Idle"
    /\ caller = None
    /\ args = NoArgs
    /\ output_folder = <<>>
    /\ index = 0
    /\ err = None
    /\ result = Nothing
    /\ fs0 = InitialFs
    /\ copied = <<>>
    /\ tagged = <<>>
    /\ prev = Nothing
    /\ runs = 0
    /\ exports = 0
    /\ first_seen = <<>>
    /\ selected = Nothing
    /\ named = Nothing

\* ------------------------------------------------------ process_wav_files
\* the call: the arguments are bound and nothing else has happened
Enter(who, files, pack_name, output_root) ==
    /\ pc' = "Validating"
    /\ caller' = who
    /\ args' = [wav_files |-> files, pack_name |-> pack_name,
                output_root |-> output_root]
    /\ output_folder' = <<>>
    /\ index' = 0
    /\ err' = None
    /\ result' = Nothing
    /\ fs0' = fs
    /\ copied' = <<>>
    /\ tagged' = <<>>

\* the folder made before the list is looked at
Validate_MkdirFirst ==
    /\ pc = "Validating"
    /\ IF args.wav_files = <<>> /\ args.output_root = Nothing
       THEN /\ pc' = "Failed"
            /\ err' = "IndexError"
            /\ UNCHANGED <<fs, output_folder>>
       ELSE LET base_folder == IF args.output_root # Nothing
                               THEN args.output_root[1]
                               ELSE Parent(args.wav_files[1])
                made == ensure_output_folder(fs, base_folder, args.pack_name)
            IN  /\ fs' = made.fs
                /\ IF ~made.ok
                   THEN /\ pc' = "Failed"
                        /\ err' = made.err
                        /\ UNCHANGED output_folder
                   ELSE IF args.wav_files = <<>>
                   THEN /\ pc' = "Failed"
                        /\ err' = "ValueError"
                        /\ UNCHANGED output_folder
                   ELSE /\ pc' = "FolderReady"
                        /\ output_folder' = base_folder \o <<OutputName(args.pack_name)>>
                        /\ err' = None
    /\ UNCHANGED <<caller, args, index, result, fs0, copied, tagged>>
    /\ UNCHANGED <<appVars, apiVars>>

\* lines 67-71: the empty-input check, the base folder, ensure_output_folder
Validate ==
    /\ pc = "Validating"
    /\ IF args.wav_files = <<>>
       THEN /\ pc' = "Failed"
            /\ err' = "ValueError"
            /\ UNCHANGED <<fs, output_folder>>
       ELSE LET base_folder == IF args.output_root # Nothing
                               THEN args.output_root[1]
                               ELSE Parent(args.wav_files[1])
                made == ensure_output_folder(fs, base_folder, args.pack_name)
            IN  /\ fs' = made.fs
                /\ IF made.ok
                   THEN /\ pc' = "FolderReady"
                        /\ output_folder' = base_folder \o <<OutputName(args.pack_name)>>
                        /\ err' = None
                   ELSE /\ pc' = "Failed"
                        /\ err' = made.err
                        /\ UNCHANGED output_folder
    /\ UNCHANGED <<caller, args, index, result, fs0, copied, tagged>>
    /\ UNCHANGED <<appVars, apiVars>>

\* line 73: enumerate(wav_files, start=1) yields its first pair
EnterLoop ==
    /\ pc = "FolderReady"
    /\ pc' = "Copying"
    /\ index' = 1
    /\ UNCHANGED <<fs, caller, args, output_folder, err, result, fs0, copied, tagged>>
    /\ UNCHANGED <<appVars, apiVars>>

\* line 75
destination_path == output_folder \o
    <<new_filename(args.pack_name, index, args.wav_files[index])>>

\* lines 74-77: the name, the destination and shutil.copy2
Copy ==
    /\ pc = "Copying"
    /\ \E priv \in BOOLEAN :
         LET r == Copy2(fs, args.wav_files[index], destination_path, priv)
         IN  /\ fs' = r.fs
             /\ IF r.ok
                THEN /\ pc' = "Tagging"
                     /\ copied' = Append(copied, <<args.wav_files[index], destination_path>>)
                     /\ err' = None
                ELSE /\ pc' = "Failed"
                     /\ err' = r.err
                     /\ UNCHANGED copied
    /\ UNCHANGED <<caller, args, output_folder, index, result, fs0, tagged>>
    /\ UNCHANGED <<appVars, apiVars>>

\* line 78, then the next pair of the loop or line 80
Tag ==
    /\ pc = "Tagging"
    /\ \E priv \in BOOLEAN :
         LET r == strip_metadata(fs, destination_path, priv)
         IN  /\ fs' = r.fs
             /\ tagged' = Append(tagged, destination_path)
             /\ IF ~r.ok
                THEN /\ pc' = "Failed"
                     /\ err' = r.err
                     /\ UNCHANGED <<index, result>>
                ELSE IF index < Len(args.wav_files)
                THEN /\ pc' = "Copying"
                     /\ index' = index + 1
                     /\ UNCHANGED <<err, result>>
                ELSE /\ pc' = "Done"
                     /\ result' = Some(<<output_folder, Len(args.wav_files)>>)
                     /\ UNCHANGED <<index, err>>
    /\ UNCHANGED <<caller, args, output_folder, fs0, copied>>
    /\ UNCHANGED <<appVars, apiVars>>

\* ------------------------------------------------------- the direct caller
\* the inputs a direct caller draws from
SourceChoices == {<<N_d, N_k>>, <<N_d, N_h>>, <<N_d, N_b>>, <<N_d, N_m>>,
                  <<N_d, N_Pout, N_P001>>}
PackChoices == {<<"P">>, <<" ">>}
RootChoices == {Nothing, Some(<<N_d>>), Some(<<N_x>>)}

SeqsUpTo(S, n) == UNION {[1..k -> S] : k \in 0..n}

RawChoices == {Raw(TRUE, <<N_d, N_k>>), Raw(FALSE, <<N_k>>),
               Raw(FALSE, <<N_tilde, N_dotdot, N_d, N_h>>),
               Raw(TRUE, <<N_d, N_l>>), Raw(TRUE, <<N_d, N_n>>),
               Raw(TRUE, <<N_d, N_s>>), Raw(TRUE, <<N_d, N_m>>),
               Raw(FALSE, <<N_tildeGhost, N_k>>),
               Raw(TRUE, <<N_d, N_Pout, N_P001>>)}

\* the files directly inside a folder
Listing(f, folder) == {p \in DOMAIN f : p # <<>> /\ Parent(p) = folder}

\* a direct caller's first call of process_wav_files; a behaviour exercises
\* one entry point of the core: process_wav_files, filter_wav_files or the
\* naming line
Call ==
    /\ pc = "Idle"
    /\ runs = 0
    /\ selected = Nothing
    /\ named = Nothing
    /\ \E files \in SeqsUpTo(SourceChoices, MaxFiles), pack_name \in PackChoices,
          output_root \in RootChoices :
         Enter("api", files, pack_name, output_root)
    /\ runs' = 1
    /\ UNCHANGED <<fs, prev, selected, named, appVars>>

\* the direct caller repeats its call with the same arguments
CallAgain ==
    /\ pc = "Idle"
    /\ caller = "api"
    /\ runs > 0
    /\ runs < MaxRuns
    /\ Enter("api", args.wav_files, args.pack_name, args.output_root)
    /\ runs' = runs + 1
    /\ UNCHANGED <<fs, prev, selected, named, appVars>>

\* the call returns to the direct caller or raises into it
Return ==
    /\ pc \in {"Done", "Failed"}
    /\ caller = "api"
    /\ pc' = "Idle"
    /\ prev' = Some([ok |-> pc = "Done", listing |-> Listing(fs, output_folder)])
    /\ UNCHANGED <<fs, caller, args, output_folder, index, err, result, fs0,
                   copied, tagged, runs, selected, named, appVars>>

\* a direct call of filter_wav_files
FilterCall ==
    /\ pc = "Idle"
    /\ runs = 0
    /\ selected = Nothing
    /\ named = Nothing
    /\ \E files \in SeqsUpTo(RawChoices, MaxBatch) :
         selected' = Some([files |-> files, got |-> filter_wav_files(fs, files)])
    /\ UNCHANGED <<fs, prev, runs, named, appVars, runVars>>

\* line 74 alone, at an index of the loop that a long list reaches
NameFile ==
    /\ pc = "Idle"
    /\ runs = 0
    /\ selected = Nothing
    /\ named = Nothing
    /\ \E i \in 1..MaxIndex, pack_name \in PackChoices,
          source_path \in {<<N_d, N_k>>, <<N_d, N_h>>} :
         named' = Some([index |-> i, pack_name |-> pack_name,
                        source_path |-> source_path,
                        name |-> new_filename(pack_name, i, source_path)])
    /\ UNCHANGED <<fs, prev, runs, selected, appVars, runVars>>

\* ---------------------------------------------------------- the front-end
RECURSIVE MergeLoop(_, _, _, _, _)
\* lines 141-147
MergeLoop(f, list, existing, new_paths, added) ==
    IF new_paths = <<>> THEN [list |-> list, added |-> added]
    ELSE LET path == Head(new_paths)
             resolved == Resolve(f, Raw(TRUE, path))
         IN  IF resolved \in existing
             THEN MergeLoop(f, list, existing, Tail(new_paths), added)
             ELSE MergeLoop(f, Append(list, path), existing \cup {resolved},
                            Tail(new_paths), added + 1)

\* a merge that forgets what the list already holds
MergeNew_NoExisting(f, list, new_paths) == MergeLoop(f, list, {}, new_paths, 0)

\* lines 140-147: the new paths merged into the accumulated list
MergeNew(f, list, new_paths) ==
    MergeLoop(f, list, {Resolve(f, Raw(TRUE, p)) : p \in Range(list)}, new_paths, 0)

RECURSIVE FirstSeen(_, _, _)
\* history: the order in which kept paths were first offered
FirstSeen(f, order, files) ==
    IF files = <<>> THEN order
    ELSE LET path == Resolve(f, ExpandUser(Head(files)).path)
         IN  IF KeepsPath(f, path) /\ path \notin Range(order)
             THEN FirstSeen(f, Append(order, path), Tail(files))
             ELSE FirstSeen(f, order, Tail(files))

\* the raw strings the user offers through the dialog or a drop
OfferChoices == {Raw(FALSE, <<N_k>>), Raw(TRUE, <<N_d, N_l>>),
                 Raw(FALSE, <<N_tilde, N_dotdot, N_d, N_h>>),
                 Raw(TRUE, <<N_d, N_n>>), Raw(FALSE, <<N_tildeGhost, N_k>>)}

\* _add_files, reached from the dialog and from a drop
AddFiles ==
    /\ pc = "Idle"
    /\ \E files \in SeqsUpTo(OfferChoices, MaxBatch) :
         LET new_paths == filter_wav_files(fs, files)
             merged == MergeNew(fs, wav_files, new_paths.out)
         IN  IF new_paths.raised
             THEN UNCHANGED <<wav_files, status_var, first_seen>>
             ELSE IF new_paths.out = <<>>
             THEN /\ status_var' = <<"No WAV files detected in selection.", 0>>
                  /\ UNCHANGED <<wav_files, first_seen>>
             ELSE /\ wav_files' = merged.list
                  /\ status_var' = IF merged.added > 0
                                   THEN <<"Added", merged.added>>
                                   ELSE <<"Files already in list.", 0>>
                  /\ first_seen' = FirstSeen(fs, first_seen, files)
    /\ UNCHANGED <<fs, pack_name_var, exports, runVars, apiVars>>

\* clear_list
ClearList ==
    /\ pc = "Idle"
    /\ wav_files' = <<>>
    /\ first_seen' = <<>>
    /\ status_var' = <<"Cleared file list.", 0>>
    /\ UNCHANGED <<fs, pack_name_var, exports, runVars, apiVars>>

\* the texts the user types into the pack-name entry
PackEntries == {<<>>, <<" ">>, <<" ", "P", " ">>}

\* the user edits the pack-name entry
SetPackName ==
    /\ pc = "Idle"
    /\ \E text \in PackEntries : pack_name_var' = text
    /\ UNCHANGED <<fs, wav_files, status_var, exports, first_seen, runVars, apiVars>>

\* a process_files that filters its list again before the call
ProcessFiles_Revalidates ==
    /\ pc = "Idle"
    /\ LET pack_name == Strip(pack_name_var)
           checked == filter_wav_files(fs, [i \in 1..Len(wav_files) |->
                                              Raw(TRUE, wav_files[i])]).out
       IN  IF pack_name = <<>>
           THEN UNCHANGED <<status_var, exports, runVars>>
           ELSE IF wav_files = <<>>
           THEN UNCHANGED <<status_var, exports, runVars>>
           ELSE /\ exports < MaxExports
                /\ status_var' = <<"Processing", 0>>
                /\ exports' = exports + 1
                /\ Enter("app", checked, pack_name, Nothing)
    /\ UNCHANGED <<fs, wav_files, pack_name_var, first_seen, apiVars>>

\* process_files up to the call of process_wav_files (lines 167-181)
ProcessFiles ==
    /\ pc = "Idle"
    /\ LET pack_name == Strip(pack_name_var)
       IN  IF pack_name = <<>>
           THEN UNCHANGED <<status_var, exports, runVars>>
           ELSE IF wav_files = <<>>
           THEN UNCHANGED <<status_var, exports, runVars>>
           ELSE /\ exports < MaxExports
                /\ status_var' = <<"Processing", 0>>
                /\ exports' = exports + 1
                /\ Enter("app", wav_files, pack_name, Nothing)
    /\ UNCHANGED <<fs, wav_files, pack_name_var, first_seen, apiVars>>

\* process_files after the call (lines 182-193); the call's frame is gone
FinishExport ==
    /\ pc \in {"Done", "Failed"}
    /\ caller = "app"
    /\ pc' = "Idle"
    /\ status_var' = IF pc = "Done" THEN <<"Done. Exported", 0>>
                     ELSE <<"Error during processing.", 0>>
    /\ caller' = None
    /\ args' = NoArgs
    /\ output_folder' = <<>>
    /\ index' = 0
    /\ err' = None
    /\ result' = Nothing
    /\ fs0' = fs
    /\ copied' = <<>>
    /\ tagged' = <<>>
    /\ UNCHANGED <<fs, wav_files, pack_name_var, exports, first_seen, apiVars>>

\* another program deletes a file the user has listed
Removable == {<<N_d, N_h>>}

EnvRemove ==
    /\ pc = "Idle"
    /\ \E p \in Removable \cap Range(wav_files) :
         /\ IsFile(fs, p)
         /\ fs' = Unlink(fs, p)
    /\ UNCHANGED <<appVars, runVars, apiVars>>

\* ----------------------------------------------------------- specifications
Next ==
    \/ Call
    \/ CallAgain
    \/ Return
    \/ Validate
    \/ EnterLoop
    \/ Copy
    \/ Tag
    \/ FilterCall
    \/ NameFile

\* the core, driven by a direct caller
Spec == Init /\ [][Next]_vars

NextApp ==
    \/ AddFiles
    \/ ClearList
    \/ SetPackName
    \/ ProcessFiles
    \/ FinishExport
    \/ EnvRemove
    \/ Validate
    \/ EnterLoop
    \/ Copy
    \/ Tag

\* the core, driven by the front-end
SpecApp == Init /\ [][NextApp]_vars

\* ------------------------------------------------------------ the claims
Running == {"Validating", "FolderReady", "Copying", "Tagging"}
Ended == {"Done", "Failed"}

IsPrefix(a, b) == Len(a) <= Len(b) /\ SubSeq(b, 1, Len(a)) = a

\* the same node, or the same absence, in two disks
SameAt(f, g, p) == (Exists(f, p) <=> Exists(g, p)) /\ (Exists(f, p) => f[p] = g[p])

\* <base>/<packName>_output of the current call
ExpectedFolder ==
    (IF args.output_root # Nothing THEN args.output_root[1]
     ELSE Parent(args.wav_files[1])) \o <<OutputName(args.pack_name)>>

\* the destination of the j-th input of the current call
Dest(j) == output_folder \o <<new_filename(args.pack_name, j, args.wav_files[j])>>

Digits == {DigitChar[d] : d \in 0..9}

DigitValue(c) == CHOOSE d \in 0..9 : DigitChar[d] = c

RECURSIVE ValueOf(_)
ValueOf(ds) == IF ds = <<>> THEN 0 ELSE 10 * ValueOf(Front(ds)) + DigitValue(Last(ds))

\* name reads <P>_<i in decimal, at least 3 digits, no more than needed>.wav
NameReads(name, P, i) ==
    LET lp == Len(P)
        ds == SubSeq(name, lp + 2, Len(name) - 4)
    IN  /\ Len(name) >= lp + 8
        /\ SubSeq(name, 1, lp) = P
        /\ name[lp + 1] = "_"
        /\ \A n \in 1..Len(ds) : ds[n] \in Digits
        /\ ValueOf(ds) = i
        /\ Len(ds) > 3 => ds[1] # "0"
        /\ SubSeq(name, Len(name) - 3, Len(name)) = <<".", "w", "a", "v">>

\* C1: the accumulated list holds each resolved path at most once, in the
\* order the paths were first offered since the last clear; offering a path
\* again, in the same batch or a later one, neither appends nor moves it.
C1_FileListUniqueFirstSeen ==
    /\ NoDup(wav_files)
    /\ NoDup([i \in 1..Len(wav_files) |-> Resolve(fs, Raw(TRUE, wav_files[i]))])
    /\ wav_files = first_seen

\* C1 witness: a list of two, in the order offered, after a batch that only
\* repeated paths already listed
C1_Witness ==
    /\ wav_files = <<<<N_d, N_h>>, <<N_d, N_k>>>>
    /\ status_var = <<"Files already in list.", 0>>

\* C2: during and after a call, failed or not, every source file is as it
\* was when the call started, and every file created or altered lies inside
\* <base>/<packName>_output/.
C2_SourcesUntouched ==
    (pc \in Running \cup Ended /\ args.wav_files # <<>>) =>
        /\ \A p \in Range(args.wav_files) : IsFile(fs0, p) => SameAt(fs, fs0, p)
        /\ \A p \in DOMAIN fs :
             (IsFile(fs, p) /\ ~SameAt(fs, fs0, p)) => IsPrefix(ExpectedFolder, p)

\* C2 for a list none of whose files lies inside the output folder: the
\* sources are untouched and only files inside the folder are written
C2_Aux_DisjointSources ==
    (pc \in Running \cup Ended /\ args.wav_files # <<>>
        /\ \A p \in Range(args.wav_files) : ~IsPrefix(ExpectedFolder, p)) =>
        /\ \A p \in Range(args.wav_files) : IsFile(fs0, p) => SameAt(fs, fs0, p)
        /\ \A p \in DOMAIN fs :
             (IsFile(fs, p) /\ ~SameAt(fs, fs0, p)) => IsPrefix(ExpectedFolder, p)

\* C3: a successful run of n files wrote n destinations, the i-th input to
\* <P>_<i, at least 3 digits>.wav in the output folder, all names distinct;
\* and the name computed for any index up to MaxIndex reads back as that
\* index, untruncated.
C3_NamesByPosition ==
    /\ pc = "Done" =>
         LET n == Len(args.wav_files)
         IN  /\ n >= 1
             /\ Len(copied) = n
             /\ result = Some(<<output_folder, n>>)
             /\ Cardinality({copied[i][2] : i \in 1..n}) = n
             /\ \A i \in 1..n :
                  /\ copied[i][1] = args.wav_files[i]
                  /\ Parent(copied[i][2]) = output_folder
                  /\ NameReads(Last(copied[i][2]), args.pack_name, i)
                  /\ IsFile(fs, copied[i][2])
                  /\ (\A j \in 1..n : copied[j][2] # args.wav_files[i]) =>
                        fs[copied[i][2]].data = fs0[args.wav_files[i]].data
    /\ named # Nothing =>
         NameReads(named[1].name, named[1].pack_name, named[1].index)

\* C3 witness: a finished run of two files, the second with an upper-case
\* extension
C3_Witness ==
    /\ pc = "Done"
    /\ args.wav_files = <<<<N_d, N_k>>, <<N_d, N_h>>>>
    /\ args.pack_name = <<"P">>

\* C4: a call with an empty list raises ValueError and the disk is as it was
\* when the call started: no folder made, nothing copied, nothing retagged.
C4_EmptyInputNoMutation ==
    (caller = "api" /\ args.wav_files = <<>>) =>
        /\ fs = fs0
        /\ pc \in {"Validating", "Failed", "Idle"}
        /\ pc # "Validating" => err = "ValueError" /\ result = Nothing
        /\ copied = <<>>
        /\ tagged = <<>>
        /\ output_folder = <<>>

\* C4 witness: the empty call has failed, with a blank pack name and an
\* output root that does not exist
C4_Witness ==
    /\ pc = "Failed"
    /\ args.wav_files = <<>>
    /\ args.pack_name = <<" ">>
    /\ args.output_root = Some(<<N_x>>)
    /\ ~Exists(fs, <<N_x>>)

\* what C5 expects of one raw string: it names a regular file whose name ends
\* in .wav in any letter case
NamesWavFile(f, raw) ==
    /\ ~ExpandUser(raw).raised
    /\ LET path == Resolve(f, ExpandUser(raw).path)
       IN  /\ IsFile(f, path)
           /\ Len(Last(path)) > 4
           /\ Lower(SubSeq(Last(path), Len(Last(path)) - 3, Len(Last(path))))
                = <<".", "w", "a", "v">>

ResolvedOf(f, raw) == Resolve(f, ExpandUser(raw).path)

\* C5: filter_wav_files never raises, keeps a raw path exactly when it
\* resolves to a regular file with a wav extension in any case, and changes
\* neither the disk nor the selection.
C5_FilterKeepsExactlyWavFiles ==
    selected # Nothing =>
        LET files == selected[1].files
            got == selected[1].got
        IN  /\ ~got.raised
            /\ Range(got.out) = {ResolvedOf(fs, files[i]) :
                                   i \in {n \in 1..Len(files) : NamesWavFile(fs, files[n])}}
            /\ fs = InitialFs
            /\ wav_files = <<>>

\* C5 without "never raises": whenever the call returns, it returned exactly
\* the regular .wav files offered, and touched nothing
C5_Aux_WhenItReturns ==
    (selected # Nothing /\ ~selected[1].got.raised) =>
        LET files == selected[1].files
            got == selected[1].got
        IN  /\ Range(got.out) = {ResolvedOf(fs, files[i]) :
                                   i \in {n \in 1..Len(files) : NamesWavFile(fs, files[n])}}
            /\ NoDup(got.out)
            /\ fs = InitialFs
            /\ wav_files = <<>>

\* C6: when a call succeeded and is repeated with the same arguments, the
\* repeat succeeds too and leaves the output folder with the same file names.
C6_RerunOverwrites ==
    (caller = "api" /\ runs >= 2 /\ pc \in Ended /\ prev # Nothing /\ prev[1].ok) =>
        /\ pc = "Done"
        /\ Listing(fs, output_folder) = prev[1].listing

\* C6 for a process that may write any file: the repeat succeeds and the
\* folder lists the same names, unless a write was refused
C6_Aux_UnlessPermissionDenied ==
    (caller = "api" /\ runs >= 2 /\ pc \in Ended /\ prev # Nothing /\ prev[1].ok) =>
        \/ pc = "Done" /\ Listing(fs, output_folder) = prev[1].listing
        \/ pc = "Failed" /\ err = "PermissionError"

\* C7: when the copy or the metadata step of the k-th file fails, the run is
\* over: destinations 1..k-1 are in the folder, the k-th copy is there if
\* the metadata step failed, destinations k+1..n are as before the call,
\* every file was handled at most once, and the call raised instead of
\* returning.
C7_FailureStopsTheBatch ==
    (pc = "Failed" /\ index >= 1) =>
        LET k == index
            n == Len(args.wav_files)
            inTag == Len(tagged) = k
        IN  /\ err # None
            /\ result = Nothing
            /\ Len(copied) = (IF inTag THEN k ELSE k - 1)
            /\ Len(tagged) = (IF inTag THEN k ELSE k - 1)
            /\ \A j \in 1..Len(copied) : copied[j] = <<args.wav_files[j], Dest(j)>>
            /\ \A j \in 1..(k - 1) : IsFile(fs, Dest(j))
            /\ inTag => IsFile(fs, Dest(k))
            /\ ~inTag => SameAt(fs, fs0, Dest(k))
            /\ \A j \in (k + 1)..n : SameAt(fs, fs0, Dest(j))

\* C7 witness: the metadata step of the second of two files has failed
C7_Witness ==
    /\ pc = "Failed"
    /\ index = 2
    /\ err = "TagIOError"
    /\ args.wav_files = <<<<N_d, N_k>>, <<N_d, N_b>>>>
    /\ IsFile(fs, Dest(1))
    /\ IsFile(fs, Dest(2))

\* C8: a call whose pack name is blank after trimming changes nothing on
\* disk, whoever makes it.
C8_BlankNameRefused ==
    (pc \in Running \cup Ended /\ Strip(args.pack_name) = <<>>) => fs = fs0

\* C8 for the front-end alone: process_files never starts a call with a
\* blank pack name
C8_Aux_FrontEndRefuses ==
    (caller = "app" /\ pc \in Running \cup Ended) => Strip(args.pack_name) # <<>>

\* C9: the folder exists before the first copy; file i is copied before its
\* metadata step and that step ends before file i+1 is copied; the metadata
\* step is given the destination copies only, never a path of the input
\* list; a finished run has handled every file.
C9_StepOrder ==
    /\ pc \in {"FolderReady", "Copying", "Tagging", "Done"} => IsDir(fs, output_folder)
    /\ pc = "Copying" => Len(copied) = index - 1 /\ Len(tagged) = index - 1
    /\ pc = "Tagging" => Len(copied) = index /\ Len(tagged) = index - 1
    /\ pc = "Done" => Len(copied) = Len(args.wav_files) /\ Len(tagged) = Len(copied)
    /\ \A i \in 1..Len(tagged) : tagged[i] = copied[i][2]
    /\ \A i \in 1..Len(tagged) : tagged[i] \notin Range(args.wav_files)

\* C9 without "never a path of the input list": the order of the steps
C9_Aux_Order ==
    /\ pc \in {"FolderReady", "Copying", "Tagging", "Done"} => IsDir(fs, output_folder)
    /\ pc = "Copying" => Len(copied) = index - 1 /\ Len(tagged) = index - 1
    /\ pc = "Tagging" => Len(copied) = index /\ Len(tagged) = index - 1
    /\ pc = "Done" => Len(copied) = Len(args.wav_files) /\ Len(tagged) = Len(copied)
    /\ \A i \in 1..Len(tagged) : tagged[i] = copied[i][2]
    /\ pc \in Running => ENABLED (Validate \/ EnterLoop \/ Copy \/ Tag)

\* C9, the transitions: each step of a run goes forward
C9_Aux_Transitions ==
    [][pc' # pc =>
         \/ pc = "Idle" /\ pc' = "Validating"
         \/ pc = "Validating" /\ pc' \in {"FolderReady", "Failed"}
         \/ pc = "FolderReady" /\ pc' = "Copying" /\ index' = 1
         \/ pc = "Copying" /\ pc' \in {"Tagging", "Failed"} /\ index' = index
         \/ pc = "Tagging" /\ pc' = "Copying" /\ index' = index + 1
         \/ pc = "Tagging" /\ pc' \in {"Done", "Failed"} /\ index' = index
         \/ pc \in Ended /\ pc' = "Idle"]_vars

\* C10: at a second trigger from the front-end, every path passed to
\* process_wav_files exists as a regular .wav file when the call starts: the
\* list was validated again, a file removed meanwhile was dropped.
C10_RevalidatedOnRerun ==
    (caller = "app" /\ pc \in Running \cup Ended /\ exports >= 2) =>
        \A p \in Range(args.wav_files) : KeepsPath(fs0, p)

\* C10 amended: the front-end keeps its list and passes it as it is, at the
\* first trigger and at every later one; the paths were validated when they
\* were offered, not again; a listed file that is gone makes the copy step
\* raise FileNotFoundError, and the list is still the same when the run ends.
C10_ListPassedAsKept ==
    (caller = "app" /\ pc \in Running \cup Ended) =>
        /\ args.wav_files = wav_files
        /\ wav_files # <<>>
        /\ \A p \in Range(wav_files) :
             Lower(Suffix(Last(p))) = <<".", "w", "a", "v">>
        /\ (pc = "Failed" /\ index >= 1 /\ Len(tagged) < index
              /\ ~Exists(fs, args.wav_files[index])) => err = "FileNotFoundError"

\* C10 witness: the second export, of a list whose file was deleted after the
\* first export, has failed in the copy step
C10_Witness ==
    /\ caller = "app"
    /\ exports = 2
    /\ pc = "Failed"
    /\ index = 1
    /\ err = "FileNotFoundError"
    /\ args.wav_files = <<<<N_d, N_h>>>>
    /\ ~Exists(fs0, <<N_d, N_h>>)

====
